---- MODULE Spec2Model ----
(***************************************************************************)
(* A model of src/libstd/macros.rs (the exported macros panic!, format!,   *)
(* print!, println!, try!, select!) and of the compiler test helper        *)
(* src/test/run-make/unicode-input/multiple_files.rs (random_char, main).  *)
(*                                                                         *)
(* Five independent state machines share the module; each has its own     *)
(* specification and leaves the variables of the others untouched:         *)
(*   SpecRandomChar  random_char()                                         *)
(*   SpecMain        main() of the test helper                             *)
(*   SpecTry         a function whose body is a sequence of try!           *)
(*   SpecMacros      expansion and execution of panic!/format!/print!/     *)
(*                   println!                                              *)
(*   SpecSelect      select! against sender threads                        *)
(***************************************************************************)
EXTENDS Integers, Sequences, FiniteSets, TLC

VARIABLES
    \* ---- random_char (multiple_files.rs:21-33)
    rc_pc,          \* position inside random_char
    rc_k,           \* the scrutinee of the match, 0 before it is drawn
    rc_lo, rc_hi,   \* the pair (lo, hi) bound by the match
    rc_code,        \* the u32 handed to char::from_u32
    rc_char,        \* the returned char (its code point), 0 before return
    \* ---- main (multiple_files.rs:35-70)
    m_pc,           \* position inside main
    m_i,            \* iterations of the outer loop started so far
    m_j,            \* iterations of the inner loop done in this iteration
    main_file,      \* unicode_input_multiple_files_main.rs
    chars_file,     \* unicode_input_multiple_files_chars.rs
    m_failed,       \* write_char calls of this iteration whose Err was dropped
    invocations,    \* completed runs of `sh -c "<rustc> <main_file>"`
    err_contains,   \* err.contains("expected item, found") of the last run
    bad_outputs,    \* runs so far whose error output lacked that text
    \* ---- a function using try! (macros.rs:111-118)
    t_pc,           \* position inside the enclosing function
    t_k,            \* which try! of the body is being executed
    t_evals,        \* per try!, how often its $expr was evaluated
    t_scrut,        \* the value of $expr the match is scrutinising
    t_vals,         \* the values the try! expressions have yielded so far
    t_after,        \* per try!, how often the code after it ran
    t_ret,          \* the enclosing function's return value, None before
    \* ---- panic!, format!, print!, println! (macros.rs:40-104)
    x_pc,           \* source, expand, builtin, run, returned, after,
                    \* unwinding, error
    x_macro,        \* the macro the source invokes
    x_input,        \* the token sequence between its parentheses
    x_cur,          \* the macro invocation the expander is looking at
    x_exp,          \* the expansion: a call of a runtime function
    x_calls,        \* the runtime functions called, in order
    x_payload,      \* what the unwinding thread carries, None if none
    x_result,       \* the value the expression yielded, None if none
    x_stdout,       \* what was printed
    \* ---- select! (macros.rs:153-167) and the sender threads
    s_pc,           \* position inside the expansion of select!
    s_n,            \* the number of arms of the invocation
    s_idx,          \* the arm a repetition $( .. )+ has reached
    next_id,        \* Select::next_id
    ids,            \* per arm, the id of its handle ($rx.id())
    added,          \* the arms whose handle was added to the select set
    chan,           \* per arm, the messages queued on its channel
    sent,           \* per arm, the messages its sender has sent so far
    hung,           \* per arm, whether its sender was dropped
    ret,            \* let ret = sel.wait(), 0 before
    arm             \* the arm whose body was entered, 0 before

rcVars   == <<rc_pc, rc_k, rc_lo, rc_hi, rc_code, rc_char>>
mainVars == <<m_pc, m_i, m_j, main_file, chars_file, m_failed, invocations,
              err_contains, bad_outputs>>
tryVars  == <<t_pc, t_k, t_evals, t_scrut, t_vals, t_after, t_ret>>
macVars  == <<x_pc, x_macro, x_input, x_cur, x_exp, x_calls, x_payload,
              x_result, x_stdout>>
selVars  == <<s_pc, s_n, s_idx, next_id, ids, added, chan, sent, hung, ret,
              arm>>
vars     == <<rcVars, mainVars, tryVars, macVars, selVars>>

\* What a step of one machine leaves alone: the variables of the others.
NotRc   == <<mainVars, tryVars, macVars, selVars>>
NotMain == <<rcVars, tryVars, macVars, selVars>>
NotTry  == <<rcVars, mainVars, macVars, selVars>>
NotMac  == <<rcVars, mainVars, tryVars, selVars>>
NotSel  == <<rcVars, mainVars, tryVars, macVars>>

\* Option<T>: None is the empty tuple, Some(x) the tuple <<x>>.
None == << >>
Some(x) == <<x>>
unwrap(o) == o[1]

(***************************************************************************)
(* Library contracts used by the helper.                                   *)
(***************************************************************************)

\* Rng::gen_range(low, high): a value in [low, high), high exclusive.
GenRange(low, high) == low .. (high - 1)

\* char::from_u32: None for a surrogate or a value above 0x10FFFF.
from_u32(n) ==
    IF (n >= 55296 /\ n <= 57343) \/ n > 1114111 THEN None ELSE Some(n)

(***************************************************************************)
(* random_char                                                             *)
(***************************************************************************)

\* The bounds of the selector: rng.gen_range(1u32, 4u32 + 1).
SelectorLow  == 1
SelectorHigh == 4 + 1

\* The match of lines 25-30: 1, 2, 3 and the catch-all arm.
RangeOf(k) ==
    CASE k = 1 -> <<65, 90>>            \* (0x41, 0x5a)
      [] k = 2 -> <<248, 442>>          \* (0xf8, 0x1ba)
      [] k = 3 -> <<5121, 5740>>        \* (0x1401, 0x166c)
      [] OTHER -> <<66560, 66639>>      \* (0x10400, 0x1044f)

CodeUpperOffByOne(hi) == hi + 2

\* The exclusive upper bound handed to the second gen_range: hi + 1.
CodeUpper(hi) == hi + 1

RcIdle ==
    /\ rc_pc = "idle" /\ rc_k = 0 /\ rc_lo = 0 /\ rc_hi = 0
    /\ rc_code = 0 /\ rc_char = 0

RcInit ==
    /\ rc_pc = "selector" /\ rc_k = 0 /\ rc_lo = 0 /\ rc_hi = 0
    /\ rc_code = 0 /\ rc_char = 0

\* line 25: rng.gen_range(1u32, 4u32 + 1)
RcSelector ==
    /\ UNCHANGED NotRc
    /\ rc_pc = "selector"
    /\ \E k \in GenRange(SelectorLow, SelectorHigh) : rc_k' = k
    /\ rc_pc' = "match"
    /\ UNCHANGED <<rc_lo, rc_hi, rc_code, rc_char>>

\* lines 25-30: let (lo, hi) = match ... { ... }
RcMatch ==
    /\ UNCHANGED NotRc
    /\ rc_pc = "match"
    /\ rc_lo' = RangeOf(rc_k)[1]
    /\ rc_hi' = RangeOf(rc_k)[2]
    /\ rc_pc' = "gen"
    /\ UNCHANGED <<rc_k, rc_code, rc_char>>

\* line 32: rng.gen_range(lo, hi + 1)
RcGenCode ==
    /\ UNCHANGED NotRc
    /\ rc_pc = "gen"
    /\ \E c \in GenRange(rc_lo, CodeUpper(rc_hi)) : rc_code' = c
    /\ rc_pc' = "from_u32"
    /\ UNCHANGED <<rc_k, rc_lo, rc_hi, rc_char>>

\* line 32: char::from_u32(..).unwrap()
RcFromU32Unwrap ==
    /\ UNCHANGED NotRc
    /\ rc_pc = "from_u32"
    /\ IF from_u32(rc_code) = None
         THEN rc_pc' = "panicked" /\ rc_char' = rc_char
         ELSE rc_pc' = "returned" /\ rc_char' = unwrap(from_u32(rc_code))
    /\ UNCHANGED <<rc_k, rc_lo, rc_hi, rc_code>>

\* the next call of random_char (main calls it once per character)
RcCallAgain ==
    /\ UNCHANGED NotRc
    /\ rc_pc = "returned"
    /\ rc_pc' = "selector"
    /\ rc_k' = 0 /\ rc_lo' = 0 /\ rc_hi' = 0 /\ rc_code' = 0 /\ rc_char' = 0

random_char ==
    RcSelector \/ RcMatch \/ RcGenCode \/ RcFromU32Unwrap \/ RcCallAgain

(***************************************************************************)
(* main                                                                    *)
(***************************************************************************)

\* for _ in 0u..100 (line 46) and for _ in 0u..30 (line 50)
Iterations  == 100
CharsPerFile == 30

\* line 43: what write_str puts into the main file
ModLine == "mod unicode_input_multiple_files_chars;"

MainIdle ==
    /\ m_pc = "idle" /\ m_i = 0 /\ m_j = 0
    /\ main_file = [creates |-> 0, content |-> ""]
    /\ chars_file = [exists |-> FALSE, open |-> FALSE, creates |-> 0, len |-> 0]
    /\ m_failed = 0 /\ invocations = 0
    /\ err_contains = FALSE /\ bad_outputs = 0

MainInit ==
    /\ m_pc = "main_file" /\ m_i = 0 /\ m_j = 0
    /\ main_file = [creates |-> 0, content |-> ""]
    /\ chars_file = [exists |-> FALSE, open |-> FALSE, creates |-> 0, len |-> 0]
    /\ m_failed = 0 /\ invocations = 0
    /\ err_contains = FALSE /\ bad_outputs = 0

CreateKeepsContent(f) ==
    [f EXCEPT !.exists = TRUE, !.open = TRUE, !.creates = @ + 1]

\* File::create opens with Truncate: whatever the file held is discarded.
FileCreate(f) ==
    [f EXCEPT !.exists = TRUE, !.open = TRUE, !.creates = @ + 1, !.len = 0]

\* for _ in 0u..100: another iteration while fewer than 100 were started.
LoopContinues(i) == i < Iterations

AssertIgnored(contains) == TRUE

\* assert!(err.contains("expected item, found"))
AssertHolds(contains) == contains

\* lines 40-44: File::create(&main_file).unwrap().write_str(..), the result
\* of write_str dropped by `let _ =`; the file is closed at the end of the
\* block.
WriteMainFile ==
    /\ UNCHANGED NotMain
    /\ m_pc = "main_file"
    /\ \E created \in BOOLEAN :
         IF ~created
           THEN m_pc' = "panicked" /\ main_file' = main_file
           ELSE /\ m_pc' = "for"
                /\ \E written \in BOOLEAN :
                     main_file' = [creates |-> main_file.creates + 1,
                                   content |-> IF written THEN ModLine
                                                          ELSE ""]
    /\ UNCHANGED <<m_i, m_j, chars_file, m_failed, invocations,
                   err_contains, bad_outputs>>

\* line 46: the head of the outer loop
ForNext ==
    /\ UNCHANGED NotMain
    /\ m_pc = "for"
    /\ IF LoopContinues(m_i)
         THEN m_i' = m_i + 1 /\ m_pc' = "create"
         ELSE m_i' = m_i /\ m_pc' = "done"
    /\ UNCHANGED <<m_j, main_file, chars_file, m_failed, invocations,
                   err_contains, bad_outputs>>

\* lines 48-49: File::create(&randoms).unwrap()
CreateCharsFile ==
    /\ UNCHANGED NotMain
    /\ m_pc = "create"
    /\ \E created \in BOOLEAN :
         IF ~created
           THEN m_pc' = "panicked" /\ UNCHANGED <<chars_file, m_j, m_failed>>
           ELSE /\ chars_file' = FileCreate(chars_file)
                /\ m_j' = 0 /\ m_failed' = 0
                /\ m_pc' = "write"
    /\ UNCHANGED <<m_i, main_file, invocations, err_contains,
                   bad_outputs>>

\* lines 50-52: let _ = w.write_char(random_char()); an Err is dropped.
\* Which character random_char returns (SpecRandomChar) has no influence on
\* main's control flow; the file is modelled by the number of characters
\* it holds.
WriteChar ==
    /\ UNCHANGED NotMain
    /\ m_pc = "write"
    /\ m_j < CharsPerFile
    /\ \E ok \in BOOLEAN :
         IF ok
           THEN chars_file' = [chars_file EXCEPT !.len = @ + 1]
                /\ m_failed' = m_failed
           ELSE chars_file' = chars_file /\ m_failed' = m_failed + 1
    /\ m_j' = m_j + 1
    /\ UNCHANGED <<m_pc, m_i, main_file, invocations, err_contains,
                   bad_outputs>>

\* line 53: the block ends and w is dropped, which closes the file
CloseCharsFile ==
    /\ UNCHANGED NotMain
    /\ m_pc = "write"
    /\ m_j >= CharsPerFile
    /\ chars_file' = [chars_file EXCEPT !.open = FALSE]
    /\ m_pc' = "command"
    /\ UNCHANGED <<m_i, m_j, main_file, m_failed, invocations,
                   err_contains, bad_outputs>>

\* lines 57-64: Command::new("sh").arg("-c").arg(..).output().unwrap() and
\* the lossy decoding of result.error; what the error output holds is the
\* compiler's choice.
RunCompiler ==
    /\ UNCHANGED NotMain
    /\ m_pc = "command"
    /\ \E spawned \in BOOLEAN :
         IF ~spawned
           THEN /\ m_pc' = "panicked"
                /\ UNCHANGED <<invocations, err_contains, bad_outputs>>
           ELSE /\ invocations' = invocations + 1
                /\ \E contains \in BOOLEAN :
                     /\ err_contains' = contains
                     /\ bad_outputs' = bad_outputs + (IF contains THEN 0 ELSE 1)
                /\ m_pc' = "assert"
    /\ UNCHANGED <<m_i, m_j, main_file, chars_file, m_failed>>

\* line 68
AssertContains ==
    /\ UNCHANGED NotMain
    /\ m_pc = "assert"
    /\ m_pc' = IF AssertHolds(err_contains) THEN "for" ELSE "panicked"
    /\ UNCHANGED <<m_i, m_j, main_file, chars_file, m_failed, invocations,
                   err_contains, bad_outputs>>

main ==
    \/ WriteMainFile \/ ForNext \/ CreateCharsFile \/ WriteChar
    \/ CloseCharsFile \/ RunCompiler \/ AssertContains

(***************************************************************************)
(* try!                                                                    *)
(*                                                                         *)
(* The enclosing function is                                               *)
(*   fn f() -> Result<Vec<T>, F> {                                         *)
(*       let v1 = try!(e1); after1; ... let vn = try!(en); aftern;         *)
(*       Ok(vec![v1, .., vn]) }                                            *)
(* with n = NumTries; each ek evaluates to any Ok(val) or Err(err).        *)
(***************************************************************************)

NumTries == 3
MaxVal   == 3
MaxErr   == 2

Ok(v)  == <<"Ok", v>>
Err(e) == <<"Err", e>>
IsOk(r)  == r # None /\ r[1] = "Ok"
IsErr(r) == r # None /\ r[1] = "Err"

\* What an expression of type Result<T, E> can evaluate to.
ExprResults ==
    {Ok(v) : v \in 1 .. MaxVal} \cup {Err(<<"E", e>>) : e \in 1 .. MaxErr}

\* FromError::from_error: the conversion of an E into the function's error
\* type F.
from_error(err) == <<"F", err[2]>>

ErrArmNoConvert(err) == Err(err)

\* line 115: the value the Err arm returns from the enclosing function
ErrArm(err) == Err(from_error(err))

TryIdle ==
    /\ t_pc = "idle" /\ t_k = 0
    /\ t_evals = [k \in 1 .. NumTries |-> 0]
    /\ t_scrut = None /\ t_vals = << >>
    /\ t_after = [k \in 1 .. NumTries |-> 0]
    /\ t_ret = None

TryInit ==
    /\ t_pc = "try" /\ t_k = 1
    /\ t_evals = [k \in 1 .. NumTries |-> 0]
    /\ t_scrut = None /\ t_vals = << >>
    /\ t_after = [k \in 1 .. NumTries |-> 0]
    /\ t_ret = None

\* line 112: match $expr { -- the scrutinee is evaluated
TryEvalExpr ==
    /\ UNCHANGED NotTry
    /\ t_pc = "try"
    /\ t_evals' = [t_evals EXCEPT ![t_k] = @ + 1]
    /\ \E r \in ExprResults : t_scrut' = r
    /\ t_pc' = "match"
    /\ UNCHANGED <<t_k, t_vals, t_after, t_ret>>

\* line 113: Ok(val) => val
TryOkArm ==
    /\ UNCHANGED NotTry
    /\ t_pc = "match"
    /\ IsOk(t_scrut)
    /\ t_vals' = Append(t_vals, t_scrut[2])
    /\ t_pc' = "after"
    /\ UNCHANGED <<t_k, t_evals, t_scrut, t_after, t_ret>>

\* lines 114-116: Err(err) => { return Err(FromError::from_error(err)) }
TryErrArm ==
    /\ UNCHANGED NotTry
    /\ t_pc = "match"
    /\ IsErr(t_scrut)
    /\ t_ret' = Some(ErrArm(t_scrut[2]))
    /\ t_pc' = "returned"
    /\ UNCHANGED <<t_k, t_evals, t_scrut, t_vals, t_after>>

\* the code of the enclosing function that follows the k-th try!: the next
\* try!, or the final Ok(..)
TryAfter ==
    /\ UNCHANGED NotTry
    /\ t_pc = "after"
    /\ t_after' = [t_after EXCEPT ![t_k] = @ + 1]
    /\ IF t_k < NumTries
         THEN t_k' = t_k + 1 /\ t_pc' = "try" /\ t_ret' = t_ret
         ELSE t_k' = t_k /\ t_pc' = "returned" /\ t_ret' = Some(Ok(t_vals))
    /\ UNCHANGED <<t_evals, t_scrut, t_vals>>

try == TryEvalExpr \/ TryOkArm \/ TryErrArm \/ TryAfter

(***************************************************************************)
(* panic!, format!, print!, println!                                       *)
(*                                                                         *)
(* A macro invocation is a name and a token sequence.  Tokens are strings: *)
(* string literals, an integer literal, an identifier, the operator + and  *)
(* the comma.  An expression is  atom (+ atom)*.                           *)
(***************************************************************************)

MaxToks == 3

LitExplicitPanic == "\"explicit panic\""
LitFormat        == "\"{}\""
StrLits == {LitExplicitPanic, LitFormat}
Atoms   == StrLits \cup {"4", "x"}
Tokens  == Atoms \cup {"+", ","}

TokenSeqs == UNION {[1 .. n -> Tokens] : n \in 0 .. MaxToks}

Macros == {"panic", "format", "print", "println"}

\* The expression parser, started on an atom at position i: the position
\* of the last token of the longest expression, or -1 when an operator is
\* followed by no operand (a fatal parse error).
RECURSIVE ExprEnd(_, _)
ExprEnd(toks, i) ==
    IF i + 1 <= Len(toks) /\ toks[i + 1] = "+"
      THEN IF i + 2 <= Len(toks) /\ toks[i + 2] \in Atoms
             THEN ExprEnd(toks, i + 2)
             ELSE -1
      ELSE i

\* The fragment specifier $x:expr at the head of toks: how many tokens the
\* expression takes, -1 when the tokens do not start an expression.
ExprPrefix(toks) ==
    IF Len(toks) = 0 \/ toks[1] \notin Atoms THEN -1 ELSE ExprEnd(toks, 1)

\* Nodes of an expansion.
MacroCall(name, toks) == [kind |-> "macro", name |-> name, toks |-> toks]
ExprNode(toks)        == [kind |-> "expr", toks |-> toks]
Arguments(toks)       == [kind |-> "fmt::Arguments", toks |-> toks]
\* { static _FILE_LINE: (&'static str, usize) = (file!(), line!());
\*   &_FILE_LINE }
FileLine              == [kind |-> "static", name |-> "_FILE_LINE"]
Call(callee, args)    == [kind |-> "call", callee |-> callee, args |-> args]

NoRule == [kind |-> "error"]

\* Which rule of panic! matches: the rules are tried in order, 0 when none
\* does.
PanicRule(toks) ==
    IF toks = << >> THEN 1
    ELSE LET p == ExprPrefix(toks) IN
         IF p = -1 THEN 0
         ELSE IF p = Len(toks) THEN 2
         ELSE IF toks[p + 1] = "," /\ Len(toks) > p + 1 THEN 3
         ELSE 0

PanicOtherMessage(toks) ==
    LET r == PanicRule(toks)
        p == ExprPrefix(toks)
    IN  CASE r = 1 -> MacroCall("panic", <<LitFormat>>)
          [] r = 2 -> Call("rt::begin_unwind", <<ExprNode(toks), FileLine>>)
          [] r = 3 -> Call("rt::begin_unwind_fmt",
                           <<MacroCall("format_args",
                                       SubSeq(toks, 1, p) \o <<",">>
                                         \o SubSeq(toks, p + 2, Len(toks))),
                             FileLine>>)
          [] OTHER -> NoRule

\* macro_rules! panic (lines 40-61): one transcription step.
\*   ()                        => panic!("explicit panic")
\*   ($msg:expr)               => begin_unwind($msg, {..&_FILE_LINE})
\*   ($fmt:expr, $($arg:tt)+)  => begin_unwind_fmt(
\*                                  format_args!($fmt, $($arg)+),
\*                                  {..&_FILE_LINE})
panic(toks) ==
    LET r == PanicRule(toks)
        p == ExprPrefix(toks)
    IN  CASE r = 1 -> MacroCall("panic", <<LitExplicitPanic>>)
          [] r = 2 -> Call("rt::begin_unwind", <<ExprNode(toks), FileLine>>)
          [] r = 3 -> Call("rt::begin_unwind_fmt",
                           <<MacroCall("format_args",
                                       SubSeq(toks, 1, p) \o <<",">>
                                         \o SubSeq(toks, p + 2, Len(toks))),
                             FileLine>>)
          [] OTHER -> NoRule

FormatDropsFirstToken(toks) ==
    Call("fmt::format",
         <<MacroCall("format_args",
                     IF toks = << >> THEN toks ELSE Tail(toks))>>)

\* macro_rules! format (lines 76-78)
\*   ($($arg:tt)*) => fmt::format(format_args!($($arg)*))
format(toks) ==
    Call("fmt::format", <<MacroCall("format_args", toks)>>)

\* macro_rules! print (lines 84-86)
\*   ($($arg:tt)*) => old_io::stdio::print_args(format_args!($($arg)*))
print(toks) ==
    Call("old_io::stdio::print_args", <<MacroCall("format_args", toks)>>)

\* macro_rules! println (lines 102-104)
\*   ($($arg:tt)*) => old_io::stdio::println_args(format_args!($($arg)*))
println(toks) ==
    Call("old_io::stdio::println_args", <<MacroCall("format_args", toks)>>)

\* The built-in format_args! (lines 188-209): a format string literal, then
\* nothing or a comma and the arguments.
FormatArgsAccepts(toks) ==
    /\ Len(toks) >= 1
    /\ toks[1] \in StrLits
    /\ Len(toks) = 1 \/ (toks[2] = "," /\ Len(toks) > 2
                         /\ ExprPrefix(SubSeq(toks, 3, Len(toks))) # -1)

\* The value an expression denotes, and the String that formatting a
\* fmt::Arguments gives.
ValueOf(toks)   == [value |-> toks]
Formatted(toks) == [string |-> toks, newline |-> FALSE]
WithNewline(str) == [str EXCEPT !.newline = TRUE]

MacIdle ==
    /\ x_pc = "idle" /\ x_macro = "" /\ x_input = << >>
    /\ x_cur = None /\ x_exp = None /\ x_calls = << >>
    /\ x_payload = None /\ x_result = None /\ x_stdout = << >>

MacInit ==
    /\ x_pc = "source" /\ x_macro = "" /\ x_input = << >>
    /\ x_cur = None /\ x_exp = None /\ x_calls = << >>
    /\ x_payload = None /\ x_result = None /\ x_stdout = << >>

\* The source holds  <macro>!(<toks>)  followed by more code.
Invoke ==
    /\ UNCHANGED NotMac
    /\ x_pc = "source"
    /\ \E m \in Macros, toks \in TokenSeqs :
         /\ x_macro' = m
         /\ x_input' = toks
         /\ x_cur' = MacroCall(m, toks)
    /\ x_pc' = "expand"
    /\ UNCHANGED <<x_exp, x_calls, x_payload, x_result, x_stdout>>

\* The expander transcribes the invocation it looks at by MacroOf; the
\* result is a call, another invocation to expand, or an error.
Transcribe(out) ==
    /\ IF out.kind = "macro"
         THEN x_cur' = out /\ x_exp' = x_exp /\ x_pc' = "expand"
         ELSE IF out.kind = "call"
           THEN x_cur' = None /\ x_exp' = out /\ x_pc' = "builtin"
           ELSE x_cur' = None /\ x_exp' = x_exp /\ x_pc' = "error"
    /\ UNCHANGED <<x_macro, x_input, x_calls, x_payload, x_result, x_stdout>>

ExpandPanic ==
    /\ UNCHANGED NotMac
    /\ x_pc = "expand" /\ x_cur.name = "panic"
    /\ Transcribe(panic(x_cur.toks))

ExpandFormat ==
    /\ UNCHANGED NotMac
    /\ x_pc = "expand" /\ x_cur.name = "format"
    /\ Transcribe(format(x_cur.toks))

ExpandPrint ==
    /\ UNCHANGED NotMac
    /\ x_pc = "expand" /\ x_cur.name = "print"
    /\ Transcribe(print(x_cur.toks))

ExpandPrintln ==
    /\ UNCHANGED NotMac
    /\ x_pc = "expand" /\ x_cur.name = "println"
    /\ Transcribe(println(x_cur.toks))

\* The compiler expands the format_args! invocations of the call's
\* arguments into fmt::Arguments values, or rejects one.
ExpandFormatArgs ==
    /\ UNCHANGED NotMac
    /\ x_pc = "builtin"
    /\ LET isFa(a) == a.kind = "macro" /\ a.name = "format_args"
           bad == \E n \in DOMAIN x_exp.args :
                     isFa(x_exp.args[n]) /\ ~FormatArgsAccepts(x_exp.args[n].toks)
       IN  IF bad
             THEN x_pc' = "error" /\ x_exp' = x_exp
             ELSE /\ x_pc' = "run"
                  /\ x_exp' = [x_exp EXCEPT !.args =
                       [n \in DOMAIN x_exp.args |->
                          IF isFa(x_exp.args[n])
                            THEN Arguments(x_exp.args[n].toks)
                            ELSE x_exp.args[n]]]
    /\ UNCHANGED <<x_macro, x_input, x_cur, x_calls, x_payload, x_result,
                   x_stdout>>

\* rt::begin_unwind(msg, file_line) -> !
RunBeginUnwind ==
    /\ UNCHANGED NotMac
    /\ x_pc = "run" /\ x_exp.callee = "rt::begin_unwind"
    /\ x_calls' = Append(x_calls, x_exp.callee)
    /\ x_payload' = Some(ValueOf(x_exp.args[1].toks))
    /\ x_pc' = "unwinding"
    /\ UNCHANGED <<x_macro, x_input, x_cur, x_exp, x_result, x_stdout>>

\* rt::begin_unwind_fmt(msg: fmt::Arguments, file_line) -> !
RunBeginUnwindFmt ==
    /\ UNCHANGED NotMac
    /\ x_pc = "run" /\ x_exp.callee = "rt::begin_unwind_fmt"
    /\ x_calls' = Append(x_calls, x_exp.callee)
    /\ x_payload' = Some(Formatted(x_exp.args[1].toks))
    /\ x_pc' = "unwinding"
    /\ UNCHANGED <<x_macro, x_input, x_cur, x_exp, x_result, x_stdout>>

\* fmt::format(args) -> String
RunFmtFormat ==
    /\ UNCHANGED NotMac
    /\ x_pc = "run" /\ x_exp.callee = "fmt::format"
    /\ x_calls' = Append(x_calls, x_exp.callee)
    /\ x_result' = Some(Formatted(x_exp.args[1].toks))
    /\ x_pc' = "returned"
    /\ UNCHANGED <<x_macro, x_input, x_cur, x_exp, x_payload, x_stdout>>

\* old_io::stdio::print_args(args)
RunPrintArgs ==
    /\ UNCHANGED NotMac
    /\ x_pc = "run" /\ x_exp.callee = "old_io::stdio::print_args"
    /\ x_calls' = Append(x_calls, x_exp.callee)
    /\ x_stdout' = Append(x_stdout, Formatted(x_exp.args[1].toks))
    /\ x_pc' = "returned"
    /\ UNCHANGED <<x_macro, x_input, x_cur, x_exp, x_payload, x_result>>

\* old_io::stdio::println_args(args)
RunPrintlnArgs ==
    /\ UNCHANGED NotMac
    /\ x_pc = "run" /\ x_exp.callee = "old_io::stdio::println_args"
    /\ x_calls' = Append(x_calls, x_exp.callee)
    /\ x_stdout' = Append(x_stdout, WithNewline(Formatted(x_exp.args[1].toks)))
    /\ x_pc' = "returned"
    /\ UNCHANGED <<x_macro, x_input, x_cur, x_exp, x_payload, x_result>>

\* The call returned: the code after the macro invocation runs.
Continue ==
    /\ UNCHANGED NotMac
    /\ x_pc = "returned"
    /\ x_pc' = "after"
    /\ UNCHANGED <<x_macro, x_input, x_cur, x_exp, x_calls, x_payload,
                   x_result, x_stdout>>

macros ==
    \/ Invoke \/ ExpandPanic \/ ExpandFormat \/ ExpandPrint \/ ExpandPrintln
    \/ ExpandFormatArgs \/ RunBeginUnwind \/ RunBeginUnwindFmt
    \/ RunFmtFormat \/ RunPrintArgs \/ RunPrintlnArgs \/ Continue

(***************************************************************************)
(* select!                                                                 *)
(*                                                                         *)
(* select!( name_1 = rx_1.recv() => code_1, .., name_n = rx_n.recv() =>    *)
(* code_n ) runs in one thread; each rx_k is the receiving end of a        *)
(* channel whose sender lives in another thread, which sends messages and  *)
(* may be dropped.                                                         *)
(***************************************************************************)

MaxArms == 3
MaxMsgs == 2

Arms == 1 .. MaxArms

SelIdle ==
    /\ s_pc = "idle" /\ s_n = 0 /\ s_idx = 0 /\ next_id = 0
    /\ ids = << >> /\ added = {}
    /\ chan = [k \in Arms |-> 0] /\ sent = [k \in Arms |-> 0]
    /\ hung = [k \in Arms |-> FALSE]
    /\ ret = 0 /\ arm = 0

\* The pattern $( .. ),+ takes one arm or more.
SelInit ==
    /\ s_pc = "new" /\ s_n \in 1 .. MaxArms /\ s_idx = 0 /\ next_id = 0
    /\ ids = << >> /\ added = {}
    /\ chan = [k \in Arms |-> 0] /\ sent = [k \in Arms |-> 0]
    /\ hung = [k \in Arms |-> FALSE]
    /\ ret = 0 /\ arm = 0

\* Receiver::can_recv: recv() would not block (a message is queued, or the
\* sender is gone).
CanRecv(k) == chan[k] > 0 \/ hung[k]

\* Select::wait: the ids of the handles of the select set that are ready.
ReadyIds == {ids[k] : k \in {a \in added : CanRecv(a)}}

\* line 161: $( $rx.add(); )+ -- the arms whose handle is added
ArmsAdded(n) == 1 .. n

ArmOfLast(r) == IF r = 0 THEN 0 ELSE Len(ids)

\* lines 164-165: $( if ret == $rx.id() { .. } else )+ { unreachable!() }
\* the first arm whose handle has the id r, 0 when the chain falls through
ArmOf(r) ==
    IF \E k \in 1 .. Len(ids) : ids[k] = r
      THEN CHOOSE k \in 1 .. Len(ids) :
             ids[k] = r /\ \A j \in 1 .. (k - 1) : ids[j] # r
      ELSE 0

\* a sender thread: tx_k.send(..)
Send(k) ==
    /\ UNCHANGED NotSel
    /\ k <= s_n /\ ~hung[k] /\ sent[k] < MaxMsgs
    /\ chan' = [chan EXCEPT ![k] = @ + 1]
    /\ sent' = [sent EXCEPT ![k] = @ + 1]
    /\ UNCHANGED <<s_pc, s_n, s_idx, next_id, ids, added, hung, ret, arm>>

\* a sender thread ends and tx_k is dropped
HangUp(k) ==
    /\ UNCHANGED NotSel
    /\ k <= s_n /\ ~hung[k]
    /\ hung' = [hung EXCEPT ![k] = TRUE]
    /\ UNCHANGED <<s_pc, s_n, s_idx, next_id, ids, added, chan, sent, ret,
                   arm>>

\* line 158: let sel = Select::new();
SelectNew ==
    /\ UNCHANGED NotSel
    /\ s_pc = "new"
    /\ next_id' = 1
    /\ s_idx' = 1
    /\ s_pc' = "handle"
    /\ UNCHANGED <<s_n, ids, added, chan, sent, hung, ret, arm>>

\* line 159: $( let mut $rx = sel.handle(&$rx); )+
\* Select::handle gives the handle the next id.
SelectHandle ==
    /\ UNCHANGED NotSel
    /\ s_pc = "handle"
    /\ ids' = Append(ids, next_id)
    /\ next_id' = next_id + 1
    /\ IF s_idx < s_n
         THEN s_idx' = s_idx + 1 /\ s_pc' = s_pc
         ELSE s_idx' = 1 /\ s_pc' = "add"
    /\ UNCHANGED <<s_n, added, chan, sent, hung, ret, arm>>

\* lines 160-162: unsafe { $( $rx.add(); )+ }
SelectAdd ==
    /\ UNCHANGED NotSel
    /\ s_pc = "add"
    /\ added' = IF s_idx \in ArmsAdded(s_n) THEN added \cup {s_idx} ELSE added
    /\ IF s_idx < s_n
         THEN s_idx' = s_idx + 1 /\ s_pc' = s_pc
         ELSE s_idx' = 0 /\ s_pc' = "wait"
    /\ UNCHANGED <<s_n, next_id, ids, chan, sent, hung, ret, arm>>

\* line 163: let ret = sel.wait(); -- blocks until a handle of the select
\* set is ready and returns the id of one that is
SelectWait ==
    /\ UNCHANGED NotSel
    /\ s_pc = "wait"
    /\ \E id \in ReadyIds : ret' = id
    /\ s_pc' = "dispatch"
    /\ UNCHANGED <<s_n, s_idx, next_id, ids, added, chan, sent, hung, arm>>

\* lines 164-165: the chain of ifs selects an arm, or reaches unreachable!()
SelectDispatch ==
    /\ UNCHANGED NotSel
    /\ s_pc = "dispatch"
    /\ IF ArmOf(ret) = 0
         THEN s_pc' = "unreachable" /\ arm' = arm
         ELSE s_pc' = "arm" /\ arm' = ArmOf(ret)
    /\ UNCHANGED <<s_n, s_idx, next_id, ids, added, chan, sent, hung, ret>>

\* line 164: { let $name = $rx.$meth(); $code } -- recv() takes the queued
\* message, or returns Err when the sender is gone, and the arm's code runs
SelectArm ==
    /\ UNCHANGED NotSel
    /\ s_pc = "arm"
    /\ CanRecv(arm)
    /\ chan' = IF chan[arm] > 0 THEN [chan EXCEPT ![arm] = @ - 1] ELSE chan
    /\ s_pc' = "done"
    /\ UNCHANGED <<s_n, s_idx, next_id, ids, added, sent, hung, ret, arm>>

SelectThread ==
    \/ SelectNew \/ SelectHandle \/ SelectAdd \/ SelectWait
    \/ SelectDispatch \/ SelectArm

Senders == \E k \in Arms : Send(k) \/ HangUp(k)

select == SelectThread \/ Senders

(***************************************************************************)
(* Specifications                                                          *)
(***************************************************************************)

InitRandomChar == RcInit /\ MainIdle /\ TryIdle /\ MacIdle /\ SelIdle

SpecRandomChar == InitRandomChar /\ [][random_char]_vars

InitMain == MainInit /\ RcIdle /\ TryIdle /\ MacIdle /\ SelIdle

SpecMain == InitMain /\ [][main]_vars

InitTry == TryInit /\ RcIdle /\ MainIdle /\ MacIdle /\ SelIdle

SpecTry == InitTry /\ [][try]_vars

InitMacros == MacInit /\ RcIdle /\ MainIdle /\ TryIdle /\ SelIdle

SpecMacros == InitMacros /\ [][macros]_vars

InitSelect == SelInit /\ RcIdle /\ MainIdle /\ TryIdle /\ MacIdle

\* The thread that runs select! is scheduled whenever it can take a step;
\* nothing is assumed of the senders.
SpecSelect == InitSelect /\ [][select]_vars /\ WF_vars(SelectThread)

(***************************************************************************)
(* Claims about the test helper                                            *)
(***************************************************************************)

\* The four inclusive ranges the claim names.
FourRanges ==
    {<<65, 90>>, <<248, 442>>, <<5121, 5740>>, <<66560, 66639>>}

InFourRanges(c) == \E r \in FourRanges : r[1] <= c /\ c <= r[2]

\* C6: random_char always returns a code point of one of the four inclusive
\* ranges 0x41..0x5a, 0xf8..0x1ba, 0x1401..0x166c, 0x10400..0x1044f; every
\* range is selectable and both endpoints of the selected range can be
\* drawn; char::from_u32(..).unwrap() never fails.
C6_RandomCharInRanges ==
    /\ rc_pc # "panicked"
    /\ rc_pc = "selector" =>
         {RangeOf(k) : k \in GenRange(SelectorLow, SelectorHigh)} = FourRanges
    /\ rc_pc = "match" => rc_k \in 1 .. 4
    /\ rc_pc = "gen" =>
         /\ <<rc_lo, rc_hi>> \in FourRanges
         /\ GenRange(rc_lo, CodeUpper(rc_hi)) = rc_lo .. rc_hi
    /\ rc_pc = "from_u32" =>
         /\ InFourRanges(rc_code)
         /\ from_u32(rc_code) # None
    /\ rc_pc = "returned" =>
         /\ InFourRanges(rc_char)
         /\ rc_lo <= rc_char /\ rc_char <= rc_hi

\* random_char has returned U+1044F, the upper endpoint of the last range.
C6_Witness == rc_pc = "returned" /\ rc_k = 4 /\ rc_char = 66639

C5_Inv ==
    /\ m_pc = "done" => invocations = Iterations /\ bad_outputs = 0
    /\ bad_outputs > 0 =>
         /\ bad_outputs = 1
         /\ ~err_contains
         /\ m_pc \in {"assert", "panicked"}
         /\ invocations = m_i
         /\ chars_file.creates = m_i

C5_Step ==
    /\ (m_pc = "assert" /\ ~err_contains) => m_pc' = "panicked"
    /\ m_pc = "panicked" =>
         /\ invocations' = invocations
         /\ chars_file' = chars_file

\* C5: the helper finishes successfully only if each of the 100 compiler
\* runs wrote an error output containing "expected item, found"; at the
\* first run whose error output lacks it the assertion fails and the helper
\* aborts, creating no further file and running the compiler no more.
C5_EveryRunChecked == []C5_Inv /\ [][C5_Step]_vars

\* The third compiler run wrote an error output without the text and the
\* helper has aborted.
C5_Witness ==
    /\ m_pc = "panicked" /\ bad_outputs = 1 /\ invocations = 3
    /\ chars_file.creates = 3

C7_Order ==
    /\ main_file.creates <= 1
    /\ m_i >= 1 => main_file.creates = 1
    /\ m_pc \in {"create", "write"} => invocations = m_i - 1
    /\ m_pc = "write" => chars_file.open /\ chars_file.creates = m_i
    /\ m_pc \in {"command", "assert"} =>
         /\ chars_file.creates = m_i
         /\ ~chars_file.open
         /\ m_j = CharsPerFile
    /\ m_pc = "command" => invocations = m_i - 1
    /\ m_pc = "assert" => invocations = m_i
    /\ m_pc = "done" => invocations = Iterations /\ m_i = Iterations
    /\ m_i <= Iterations /\ invocations <= Iterations

\* C7 as stated: when the compiler is started the chars file holds exactly
\* 30 characters.
C7_AsStated ==
    /\ C7_Order
    /\ m_pc \in {"command", "assert"} => chars_file.len = CharsPerFile

\* C7, amended: the main file is created once, before the first iteration;
\* every iteration creates the chars file anew (truncated), issues exactly
\* 30 write_char calls on it and closes it before the compiler is started,
\* once per iteration, 100 runs in a run that finishes.  The results of
\* the write_char calls are dropped, so the file holds the characters of
\* the calls that succeeded: 30 when none failed, fewer otherwise.
C7_WriteThenCompile ==
    /\ C7_Order
    /\ m_pc \in {"command", "assert"} =>
         /\ chars_file.len + m_failed = CharsPerFile
         /\ (m_failed = 0 => chars_file.len = CharsPerFile)

\* The compiler has run in the second iteration on a freshly created,
\* closed chars file after 30 write_char calls, one of which failed.
C7_Witness ==
    /\ m_pc = "assert" /\ m_i = 2 /\ invocations = 2
    /\ m_j = CharsPerFile /\ m_failed = 1 /\ chars_file.len = CharsPerFile - 1

(***************************************************************************)
(* Claims about try!                                                       *)
(***************************************************************************)

\* C2: try!(e) evaluates e exactly once; on Ok(val) it yields val and the
\* enclosing function continues with the code after it; on Err(err) the
\* enclosing function returns at once with Err(FromError::from_error(err))
\* and none of its code after that try! runs.
C2_TryUnwrapsOrReturns ==
    /\ \A k \in 1 .. NumTries :
         /\ t_evals[k] <= 1 /\ t_after[k] <= 1
         /\ k < t_k => t_evals[k] = 1 /\ t_after[k] = 1 /\ Len(t_vals) >= k
         /\ k > t_k => t_evals[k] = 0 /\ t_after[k] = 0
    /\ t_pc = "try" => t_evals[t_k] = 0 /\ t_ret = None
    /\ t_pc \in {"match", "after", "returned"} => t_evals[t_k] = 1
    /\ t_pc = "after" =>
         /\ IsOk(t_scrut)
         /\ Len(t_vals) = t_k /\ t_vals[t_k] = t_scrut[2]
         /\ t_after[t_k] = 0
         /\ t_ret = None
    /\ (t_pc = "returned" /\ IsErr(t_scrut)) =>
         /\ t_ret = Some(Err(from_error(t_scrut[2])))
         /\ t_after[t_k] = 0
         /\ Len(t_vals) = t_k - 1
    /\ (t_pc = "returned" /\ IsOk(t_scrut)) =>
         /\ t_k = NumTries /\ t_after[t_k] = 1
         /\ t_ret = Some(Ok(t_vals))
    /\ t_ret # None => t_pc = "returned"

\* The first try! yielded a value, the code after it ran, and the second
\* try! met the error 2: the function has returned that error converted.
C2_Witness ==
    /\ t_pc = "returned" /\ t_k = 2
    /\ Len(t_vals) = 1 /\ t_after[1] = 1
    /\ t_scrut = Err(<<"E", 2>>) /\ t_ret = Some(Err(<<"F", 2>>))

(***************************************************************************)
(* Claims about panic! and the formatting macros                           *)
(***************************************************************************)

HasComma(toks) == \E n \in DOMAIN toks : toks[n] = ","

\* C3: every form of panic! ends in exactly one call that starts unwinding
\* and never returns to the caller: panic!() panics with "explicit panic",
\* exactly as panic!("explicit panic") does; panic!(v) transmits the value
\* v through begin_unwind; the multi-argument form panics with the string
\* formatted from its arguments through begin_unwind_fmt.
C3_PanicUnwinds ==
    x_macro = "panic" =>
      /\ x_pc \notin {"returned", "after"}
      /\ x_result = None /\ x_stdout = << >>
      /\ Len(x_calls) <= 1
      /\ x_pc = "run" =>
           x_exp.callee \in {"rt::begin_unwind", "rt::begin_unwind_fmt"}
      /\ (x_input = << >> /\ x_exp # None) =>
           /\ x_exp = Call("rt::begin_unwind",
                           <<ExprNode(<<LitExplicitPanic>>), FileLine>>)
           /\ x_exp = panic(<<LitExplicitPanic>>)
      /\ x_pc = "unwinding" =>
           /\ Len(x_calls) = 1
           /\ x_input = << >> =>
                /\ x_calls = <<"rt::begin_unwind">>
                /\ x_payload = Some(ValueOf(<<LitExplicitPanic>>))
           /\ (x_input # << >> /\ ~HasComma(x_input)) =>
                /\ x_calls = <<"rt::begin_unwind">>
                /\ x_payload = Some(ValueOf(x_input))
           /\ HasComma(x_input) =>
                /\ x_calls = <<"rt::begin_unwind_fmt">>
                /\ x_payload = Some(Formatted(x_input))
      /\ x_pc # "unwinding" => x_payload = None /\ x_calls = << >>

\* panic!() has expanded, through panic!("explicit panic"), into a call of
\* begin_unwind and the thread unwinds with that message.
C3_Witness ==
    /\ x_macro = "panic" /\ x_input = << >> /\ x_pc = "unwinding"
    /\ x_payload = Some(ValueOf(<<LitExplicitPanic>>))

\* The runtime function each formatting macro hands its fmt::Arguments to.
RuntimeOf(m) ==
    CASE m = "format"  -> "fmt::format"
      [] m = "print"   -> "old_io::stdio::print_args"
      [] m = "println" -> "old_io::stdio::println_args"
      [] OTHER         -> "rt::begin_unwind_fmt"

FormatArgsUses(e) ==
    {n \in DOMAIN e.args :
       e.args[n].kind \in {"macro", "fmt::Arguments"}}

\* C4: format!, print!, println! and the multi-argument panic! pass their
\* whole token sequence, unchanged and exactly once, to format_args! and
\* hand the result to exactly one runtime function (fmt::format,
\* print_args, println_args, begin_unwind_fmt); hence format!(args) is
\* fmt::format(format_args!(args)).
C4_ProxiedThroughFormatArgs ==
    (x_macro \in {"format", "print", "println"}
       \/ (x_macro = "panic" /\ HasComma(x_input))) =>
      /\ x_exp # None =>
           /\ x_exp.callee = RuntimeOf(x_macro)
           /\ FormatArgsUses(x_exp) = {1}
           /\ x_exp.args[1].toks = x_input
           /\ x_pc = "builtin" =>
                x_exp.args[1] = MacroCall("format_args", x_input)
           /\ x_pc \notin {"builtin", "error"} =>
                x_exp.args[1] = Arguments(x_input)
      /\ (x_macro = "format" /\ x_pc = "builtin") =>
           x_exp = Call("fmt::format", <<MacroCall("format_args", x_input)>>)
      /\ Len(x_calls) <= 1
      /\ x_pc \in {"returned", "after", "unwinding"} =>
           x_calls = <<RuntimeOf(x_macro)>>
      /\ (x_macro = "format" /\ x_pc \in {"returned", "after"}) =>
           x_result = Some(Formatted(x_input))
      /\ (x_macro = "print" /\ x_pc \in {"returned", "after"}) =>
           x_stdout = <<Formatted(x_input)>>
      /\ (x_macro = "println" /\ x_pc \in {"returned", "after"}) =>
           x_stdout = <<WithNewline(Formatted(x_input))>>

\* format!("{}", x) has been expanded and run: fmt::format was called once,
\* with format_args!("{}", x).
C4_Witness ==
    /\ x_macro = "format" /\ x_input = <<LitFormat, ",", "x">>
    /\ x_pc = "returned"
    /\ x_exp = Call("fmt::format", <<Arguments(x_input)>>)
    /\ x_result = Some(Formatted(x_input))

(***************************************************************************)
(* Claims about select!                                                    *)
(***************************************************************************)

\* An event on receiver k: a message was sent to it or its sender is gone.
EventOn(k) == sent[k] > 0 \/ hung[k]

C1_Safety ==
    /\ s_pc # "unreachable"
    /\ s_pc \in {"arm", "done"} <=> arm # 0
    /\ s_pc \in {"dispatch", "arm", "done"} =>
         /\ ret \in {ids[k] : k \in 1 .. s_n}
         /\ \E k \in 1 .. s_n : EventOn(k)
    /\ arm # 0 =>
         /\ arm \in 1 .. s_n
         /\ ret = ids[arm]
         /\ \A k \in 1 .. s_n : ids[k] = ret => k = arm
         /\ EventOn(arm)
         /\ s_pc = "arm" => CanRecv(arm)

C1_Sent == \E k \in 1 .. s_n : sent[k] > 0

\* C1: select! waits for the first event on its receivers: for every
\* number n >= 1 of arms and every interleaving of the senders, no arm runs
\* before an event has occurred on some receiver, the arm that runs is the
\* arm of the receiver whose handle id Select::wait returned (and that
\* receiver has an event), and once some sender has sent, the select!
\* completes.
C1_SelectWaitsForFirstEvent == []C1_Safety /\ (C1_Sent ~> (s_pc = "done"))

\* Three arms; only the sender of the second receiver has sent, wait
\* returned the id of the second handle and the second arm has run.
C1_Witness ==
    /\ s_n = 3 /\ s_pc = "done" /\ arm = 2 /\ ret = ids[2]
    /\ sent = [k \in Arms |-> IF k = 2 THEN 1 ELSE 0]
    /\ \A k \in Arms : ~hung[k]

====
